---- MODULE Spec2Model ----
(***************************************************************************)
(* Staff_Schedule (src/app.py): a Flask service over two tables of a       *)
(* remote store, staffs and monthly_schedule.  Every .execute() is a       *)
(* round trip to the store on which the handler waits, and the server      *)
(* serves other requests meanwhile; the source has no lock and no          *)
(* transaction.  So a handler is modelled one action per round trip: the   *)
(* step takes the handler from one store call to the next, with the local  *)
(* work in between.  Two requests are in service at a time at most, on the *)
(* handlers run and twin.                                                  *)
(*                                                                         *)
(* A table is a relation: staffs is kept as its rows in staff_id order     *)
(* (two rows may hold the same staff_id: the source does not show a unique *)
(* key), monthly_schedule as the bag of its rows.  Where the outcome of a  *)
(* store call depends on the store and not on the source (an update with   *)
(* no filter, an insert of a staff_id already there), both outcomes are    *)
(* steps.                                                                  *)
(*                                                                         *)
(* Left out: the updated_at column (a wall-clock stamp nothing reads) and  *)
(* the read-only routes home, view_month_schedule and view_staffs.         *)
(***************************************************************************)
EXTENDS Integers, Sequences, FiniteSets, Bags, TLC

VARIABLES
    staffs,            \* table "staffs": its rows, in staff_id order
    monthly_schedule,  \* table "monthly_schedule": the bag of its rows
    run,               \* a request in service: the handler's locals
    twin,              \* a second request in service: the handler's locals
    requests_left,     \* the requests the clients have yet to send
    assigned_since_reset,  \* history: rows inserted per staff_id since the last reset
    serialized         \* history: no request has arrived while another was in service

vars == <<staffs, monthly_schedule, run, twin, requests_left,
          assigned_since_reset, serialized>>

----------------------------------------------------------------------------
(* Bounds of the model *)

\* staff_ids that POST /staff is called with are 1..MaxStaff
MaxStaff == 2
\* the clients of the service send MaxRequests requests in all
MaxRequests == 4
\* largest snapshot of eligible staff the scheduler is run on in SpecRun
MaxSnapshot == 13
\* largest snapshot two runs are started from in SpecTwin
MaxTwin == 3
\* largest staffs table two concurrent requests are served on in SpecRace
MaxRace == 2

----------------------------------------------------------------------------
(* Values *)

None == "None"

weekdays == <<"Monday", "Tuesday", "Wednesday", "Thursday", "Friday", "Saturday">>
gates == <<"Gate A", "Gate B", "Gate C">>
SeatsPerGate == 2
Ceiling == 3
TOTAL_SLOTS == 6 * Len(weekdays)

Months == {"2024-01", "2024-02"}
MonthInputs == Months \cup {None, ""}
StaffIdInputs == 0..MaxStaff
NameInputs == {"", "Asha"}
DepartmentInputs == {"", "CSE"}
BusyInputs == {"absent", "false", "true"}
ConfirmationInputs == {None, "confirm", "CONFIRM"}

\* Python truthiness of a request field: None and "" are falsy strings,
\* 0 is the falsy staff_id
Falsy(x) == x = None \/ x = ""
FalsyId(x) == x = 0
\* bool(data.get("busy_9_10")) on the JSON values absent / false / true
PyBool(x) == x = "true"

Range(s) == {s[i] : i \in DOMAIN s}

----------------------------------------------------------------------------
(* The scheduler: generate_monthly_schedule, lines 73-156 *)

MonthDate(month_input) == month_input \o "-01"

\* the fetch without its busy_9_10 filter
AllRows(t) == DOMAIN t

\* .eq("busy_9_10", False): the positions of the rows of staffs it keeps
EligibleRows(t) == {i \in DOMAIN t : t[i].busy_9_10 = FALSE}

\* the row fetched with a count that starts at 0 in every run
FetchedRowPerRunCount(t, i) ==
    [staff_id |-> t[i].staff_id,
     staff_name |-> t[i].staff_name,
     department |-> t[i].department,
     busy_9_10 |-> t[i].busy_9_10,
     priority_count |-> 0,
     priority_updated_month |-> t[i].priority_updated_month]

\* select("*"): every column of the row
FetchedRow(t, i) ==
    [staff_id |-> t[i].staff_id,
     staff_name |-> t[i].staff_name,
     department |-> t[i].department,
     busy_9_10 |-> t[i].busy_9_10,
     priority_count |-> t[i].priority_count,
     priority_updated_month |-> t[i].priority_updated_month]

\* .order("priority_count"): ascending; the order among equal counts is
\* not determined by the query, so every consistent order is possible
FetchOrders(t) ==
    LET kept == EligibleRows(t)
        n == Cardinality(kept)
    IN  {[i \in 1..n |-> FetchedRow(t, f[i])] :
            f \in {g \in [1..n -> kept] :
                     /\ \A i, j \in 1..n : i # j => g[i] # g[j]
                     /\ \A i, j \in 1..n :
                          i < j => t[g[i]].priority_count <= t[g[j]].priority_count}}

\* line 91: {s["staff_id"]: s for s in staff_resp.data}; a dict keeps a key
\* at the place of its first insertion and the value of its last
RECURSIVE StaffMapOf(_)
StaffMapOf(data) ==
    IF data = <<>> THEN <<>>
    ELSE LET before == StaffMapOf(SubSeq(data, 1, Len(data) - 1))
             s == data[Len(data)]
         IN  IF \E i \in DOMAIN before : before[i].staff_id = s.staff_id
             THEN [i \in DOMAIN before |->
                      IF before[i].staff_id = s.staff_id THEN s ELSE before[i]]
             ELSE Append(before, s)

\* a sort that ranks equal counts by priority_updated_month, the staff
\* never stamped or stamped longest ago first
MonthRank(stamp) ==
    IF stamp = None THEN 0 ELSE IF stamp = "2023-12-01" THEN 1 ELSE 2

RECURSIVE InsertByPriorityThenMonth(_, _)
InsertByPriorityThenMonth(done, s) ==
    IF done = <<>> THEN <<s>>
    ELSE IF \/ Head(done).priority_count < s.priority_count
            \/ /\ Head(done).priority_count = s.priority_count
               /\ MonthRank(Head(done).priority_updated_month)
                    <= MonthRank(s.priority_updated_month)
         THEN <<Head(done)>> \o InsertByPriorityThenMonth(Tail(done), s)
         ELSE <<s>> \o done

\* a sort that ranks equal counts by staff_id
RECURSIVE InsertByPriorityThenId(_, _)
InsertByPriorityThenId(done, s) ==
    IF done = <<>> THEN <<s>>
    ELSE IF \/ Head(done).priority_count < s.priority_count
            \/ /\ Head(done).priority_count = s.priority_count
               /\ Head(done).staff_id <= s.staff_id
         THEN <<Head(done)>> \o InsertByPriorityThenId(Tail(done), s)
         ELSE <<s>> \o done

\* sorted(..., key=priority_count): a stable sort
RECURSIVE InsertByPriority(_, _)
InsertByPriority(done, s) ==
    IF done = <<>> THEN <<s>>
    ELSE IF Head(done).priority_count <= s.priority_count
         THEN <<Head(done)>> \o InsertByPriority(Tail(done), s)
         ELSE <<s>> \o done

RECURSIVE sorted(_)
sorted(values) ==
    IF values = <<>> THEN <<>>
    ELSE InsertByPriority(sorted(SubSeq(values, 1, Len(values) - 1)),
                          values[Len(values)])

\* the break taken only once the count is past the ceiling
ExhaustedPastCeiling(eligible) ==
    eligible = <<>> \/ eligible[1].priority_count > Ceiling

\* line 102: the loop's break condition
Exhausted(eligible) ==
    eligible = <<>> \/ eligible[1].priority_count >= Ceiling

\* the pick from the other end of the ranking
PickLastRanked(eligible) == eligible[Len(eligible)]

\* line 105
PickStaff(eligible) == eligible[1]

\* the increment made on a copy of the row, which staff_map never sees
IncrementCopy(staff_map, staff_id) == staff_map

\* line 110: staff["priority_count"] += 1, on the dict held by staff_map
Increment(staff_map, staff_id) ==
    [i \in DOMAIN staff_map |->
        IF staff_map[i].staff_id = staff_id
        THEN [staff_map[i] EXCEPT !.priority_count = @ + 1]
        ELSE staff_map[i]]

\* the loop entered once more at the target
LoopContinuesAtTarget(assignments) == Len(assignments) <= TOTAL_SLOTS

\* line 96: the loop's condition
LoopContinues(assignments) == Len(assignments) < TOTAL_SLOTS

\* the loop ranking once per gate: the staff member picked takes both seats
\* before the next ranking
RECURSIVE ConsumptionLoopPerGate(_, _)
ConsumptionLoopPerGate(staff_map, assignments) ==
    IF ~LoopContinues(assignments)
    THEN [staff_map |-> staff_map, assignments |-> assignments]
    ELSE LET eligible == sorted(staff_map)
         IN  IF Exhausted(eligible)
             THEN [staff_map |-> staff_map, assignments |-> assignments]
             ELSE LET staff == PickStaff(eligible)
                  IN  ConsumptionLoopPerGate(
                        Increment(Increment(staff_map, staff.staff_id), staff.staff_id),
                        assignments \o <<staff.staff_id, staff.staff_id>>)

\* lines 96-110: the progressive consumption loop
RECURSIVE ConsumptionLoop(_, _)
ConsumptionLoop(staff_map, assignments) ==
    IF ~LoopContinues(assignments)
    THEN [staff_map |-> staff_map, assignments |-> assignments]
    ELSE LET eligible == sorted(staff_map)
         IN  IF Exhausted(eligible)
             THEN [staff_map |-> staff_map, assignments |-> assignments]
             ELSE LET staff == PickStaff(eligible)
                  IN  ConsumptionLoop(Increment(staff_map, staff.staff_id),
                                      Append(assignments, staff.staff_id))

StaffOf(staff_map, staff_id) ==
    staff_map[CHOOSE i \in DOMAIN staff_map : staff_map[i].staff_id = staff_id]

\* lines 118-139: the seats of one gate; st holds idx, the rows inserted,
\* day_list and shortage_days
RECURSIVE SeatLoop(_, _, _, _, _, _, _)
SeatLoop(st, seat, assignments, staff_map, month_date, day, g) ==
    IF seat >= SeatsPerGate THEN st
    ELSE IF st.idx >= Len(assignments)
         THEN [st EXCEPT !.shortage_days = Append(@, day)]
         ELSE LET staff_id == assignments[st.idx + 1]
                  staff == StaffOf(staff_map, staff_id)
              IN  SeatLoop(
                    [st EXCEPT
                       !.rows = Append(@, [staff_id |-> staff_id,
                                           month |-> month_date,
                                           weekday |-> day,
                                           gate |-> g]),
                       !.day_list = Append(@, [staff_id |-> staff_id,
                                               name |-> staff.staff_name,
                                               gate |-> g]),
                       !.idx = @ + 1],
                    seat + 1, assignments, staff_map, month_date, day, g)

\* lines 117-139: the gates of one day
RECURSIVE GateLoop(_, _, _, _, _, _)
GateLoop(st, gi, assignments, staff_map, month_date, day) ==
    IF gi > Len(gates) THEN st
    ELSE GateLoop(SeatLoop(st, 0, assignments, staff_map, month_date, day, gates[gi]),
                  gi + 1, assignments, staff_map, month_date, day)

\* lines 113-142: the days; scheduled_days gets the days with a non-empty list
RECURSIVE DayLoop(_, _, _, _, _)
DayLoop(st, di, assignments, staff_map, month_date) ==
    IF di > Len(weekdays) THEN st
    ELSE LET day == weekdays[di]
             after == GateLoop([st EXCEPT !.day_list = <<>>], 1,
                               assignments, staff_map, month_date, day)
         IN  DayLoop(
               IF after.day_list # <<>>
               THEN [after EXCEPT !.scheduled_days = (day :> after.day_list) @@ @]
               ELSE after,
               di + 1, assignments, staff_map, month_date)

\* the mapping with idx started at 1
MapAssignmentsFromOne(assignments, staff_map, month_date) ==
    DayLoop([idx |-> 1, rows |-> <<>>, day_list |-> <<>>,
             shortage_days |-> <<>>, scheduled_days |-> <<>>],
            1, assignments, staff_map, month_date)

\* lines 112-142: idx = 0 and the three loops
MapAssignments(assignments, staff_map, month_date) ==
    DayLoop([idx |-> 0, rows |-> <<>>, day_list |-> <<>>,
             shortage_days |-> <<>>, scheduled_days |-> <<>>],
            1, assignments, staff_map, month_date)

\* shortage_days returned as collected, with its repetitions
ListWithRepeats(shortage_days) ==
    [d \in Range(shortage_days) |->
        Cardinality({i \in DOMAIN shortage_days : shortage_days[i] = d})]

\* line 155: list(set(shortage_days)); the order of the list is that of the
\* set's iteration, so the list is kept as the bag of its elements
ListOfSet(shortage_days) == SetToBag(Range(shortage_days))

\* the update writing the month stamp and not the count
UpdateMonthOnly(t, staff, month_date) ==
    [i \in DOMAIN t |->
        IF t[i].staff_id = staff["staff_id"]
        THEN [t[i] EXCEPT !.priority_updated_month = month_date]
        ELSE t[i]]

\* lines 146-150: the update of the rows with the staff_id of one staff of
\* staff_map
UpdatePriority(t, staff, month_date) ==
    [i \in DOMAIN t |->
        IF t[i].staff_id = staff["staff_id"]
        THEN [t[i] EXCEPT !.priority_count = staff["priority_count"],
                          !.priority_updated_month = month_date]
        ELSE t[i]]

\* the insert replacing the rows of its month instead of adding to them
InsertReplacingMonth(rows, row) ==
    LET others == {r \in BagToSet(rows) : r.month # row.month}
    IN  [r \in others |-> rows[r]] (+) SetToBag({row})

\* lines 126-131: one row inserted into monthly_schedule
InsertSchedule(rows, row) == rows (+) SetToBag({row})

NoResponse == [op |-> "none", status |-> 0, body |-> <<>>]

\* a handler with no request
NoRun == [pc |-> "idle", op |-> "none", response |-> NoResponse]

\* a handler that has answered, and the answer
Answered(op, status, body) ==
    [pc |-> "done", op |-> op,
     response |-> [op |-> op, status |-> status, body |-> body]]

\* a handler between two store calls of its request
InService(h) == h.pc \notin {"idle", "done"}

\* lines 152-156
ScheduleResponse(r) ==
    [op |-> "schedule", status |-> 200,
     body |-> [month |-> r.month_input,
               scheduled_days |-> r.scheduled_days,
               shortage_days |-> ListOfSet(r.shortage_days)]]

\* the store call the handler makes next: the inserts of the mapping loop,
\* then the updates of lines 145-150, then the answer
NextCall(r) ==
    IF r.inserted < Len(r.rows) THEN "insert"
    ELSE IF r.updated < Len(r.staff_map) THEN "update"
    ELSE "done"

Advance(r) ==
    [r EXCEPT !.pc = NextCall(r),
              !.response = IF NextCall(r) = "done"
                           THEN ScheduleResponse(r) ELSE NoResponse]

\* the handler's locals once it has fetched staff_resp: the plan of lines
\* 91-142 depends on nothing but the fetched rows and the month, so it is
\* held from the fetch on; rows are the inserts the mapping loop sends, in
\* order, and inserted and updated count the store calls made
RunOn(staff_resp, month_input) ==
    LET month_date == MonthDate(month_input)
        loop == ConsumptionLoop(StaffMapOf(staff_resp), <<>>)
        mapped == MapAssignments(loop.assignments, loop.staff_map, month_date)
    IN  Advance([pc |-> "fetched",
                 op |-> "schedule",
                 month_input |-> month_input,
                 month_date |-> month_date,
                 staff_resp |-> staff_resp,
                 staff_map |-> loop.staff_map,
                 assignments |-> loop.assignments,
                 rows |-> mapped.rows,
                 scheduled_days |-> mapped.scheduled_days,
                 shortage_days |-> mapped.shortage_days,
                 inserted |-> 0,
                 updated |-> 0,
                 response |-> NoResponse])

CountOf(seq, x) == Cardinality({i \in DOMAIN seq : seq[i] = x})

\* a request arrives at handler h while the other handler is o
Arrives(h, o) ==
    /\ requests_left > 0
    /\ ~InService(h)
    /\ requests_left' = requests_left - 1
    /\ serialized' = (serialized /\ ~InService(o))

\* lines 67-89 and the local work up to the first insert
generate_monthly_schedule(h, hn, o, month_input) ==
    /\ Arrives(h, o)
    /\ UNCHANGED <<staffs, monthly_schedule, assigned_since_reset>>
    /\ IF Falsy(month_input)
       THEN hn = Answered("schedule", 400, [error |-> "month required"])
       ELSE \E staff_resp \in FetchOrders(staffs) :
                hn = RunOn(staff_resp, month_input)

\* lines 126-131: one insert of the mapping loop, and the local work up to
\* the next store call
insert_schedule_row(h, hn) ==
    /\ h.pc = "insert"
    /\ LET row == h.rows[h.inserted + 1]
       IN  /\ monthly_schedule' = InsertSchedule(monthly_schedule, row)
           /\ assigned_since_reset' =
                 [assigned_since_reset EXCEPT ![row.staff_id] = @ + 1]
    /\ hn = Advance([h EXCEPT !.inserted = @ + 1])
    /\ UNCHANGED <<staffs, requests_left, serialized>>

\* lines 145-150: the update of one staff of staff_map; after the last one,
\* the answer of lines 152-156
update_priority(h, hn) ==
    /\ h.pc = "update"
    /\ staffs' = UpdatePriority(staffs, h.staff_map[h.updated + 1], h.month_date)
    /\ hn = Advance([h EXCEPT !.updated = @ + 1])
    /\ UNCHANGED <<monthly_schedule, requests_left, assigned_since_reset, serialized>>

----------------------------------------------------------------------------
(* add_or_update_staff, lines 26-61 *)

\* lines 38-41: the rows of staffs with the staff_id, their staff_id column
SelectStaff(t, staff_id) ==
    LET found == SelectSeq(t, LAMBDA r : r.staff_id = staff_id)
    IN  [i \in DOMAIN found |-> [staff_id |-> found[i].staff_id]]

\* the update writing priority_count 0 as the insert does
UpdatedRowFromScratch(row, staff_name, department, busy_9_10) ==
    [row EXCEPT !.staff_name = staff_name,
                !.department = department,
                !.busy_9_10 = busy_9_10,
                !.priority_count = 0]

\* lines 44-49: what the update writes to a row
UpdatedRow(row, staff_name, department, busy_9_10) ==
    [row EXCEPT !.staff_name = staff_name,
                !.department = department,
                !.busy_9_10 = busy_9_10]

\* lines 44-49: the update of the rows with the staff_id
UpdateStaff(t, staff_id, staff_name, department, busy_9_10) ==
    [i \in DOMAIN t |->
        IF t[i].staff_id = staff_id
        THEN UpdatedRow(t[i], staff_name, department, busy_9_10)
        ELSE t[i]]

\* lines 53-59: the row inserted; priority_updated_month is not written
InsertedRow(staff_id, staff_name, department, busy_9_10) ==
    [staff_id |-> staff_id,
     staff_name |-> staff_name,
     department |-> department,
     busy_9_10 |-> busy_9_10,
     priority_count |-> 0,
     priority_updated_month |-> None]

\* the table with one more row, kept in staff_id order
InsertStaff(t, row) ==
    SelectSeq(t, LAMBDA r : r.staff_id <= row.staff_id)
      \o <<row>>
      \o SelectSeq(t, LAMBDA r : r.staff_id > row.staff_id)

StaffIds(t) == {t[i].staff_id : i \in DOMAIN t}

\* lines 28-41: the fields are read and tested, and the select is sent
add_or_update_staff(h, hn, o, staff_id, staff_name, department, busy_input) ==
    /\ Arrives(h, o)
    /\ UNCHANGED <<staffs, monthly_schedule, assigned_since_reset>>
    /\ IF FalsyId(staff_id) \/ Falsy(staff_name) \/ Falsy(department)
       THEN hn = Answered("staff", 400,
                          [error |-> "staff_id, staff_name, department required"])
       ELSE hn = [pc |-> "selected",
                  op |-> "staff",
                  staff_id |-> staff_id,
                  staff_name |-> staff_name,
                  department |-> department,
                  busy_9_10 |-> PyBool(busy_input),
                  existing |-> SelectStaff(staffs, staff_id),
                  response |-> NoResponse]

\* lines 43-61: the update or the insert, as the select found.  An insert
\* of a staff_id that is in the table by now adds a second row or is
\* refused, as the store has it: a refused call raises APIError, and the
\* request is answered 500.
write_staff(h, hn) ==
    /\ h.pc = "selected"
    /\ UNCHANGED <<monthly_schedule, requests_left, serialized>>
    /\ IF h.existing # <<>>
       THEN /\ staffs' = UpdateStaff(staffs, h.staff_id, h.staff_name,
                                     h.department, h.busy_9_10)
            /\ hn = Answered("staff", 200, [message |-> "Staff updated"])
            /\ UNCHANGED assigned_since_reset
       ELSE \/ /\ staffs' = InsertStaff(staffs,
                               InsertedRow(h.staff_id, h.staff_name,
                                           h.department, h.busy_9_10))
               /\ assigned_since_reset' =
                     IF h.staff_id \in DOMAIN assigned_since_reset
                     THEN assigned_since_reset
                     ELSE (h.staff_id :> 0) @@ assigned_since_reset
               /\ hn = Answered("staff", 201, [message |-> "Staff added"])
            \/ /\ h.staff_id \in StaffIds(staffs)
               /\ hn = Answered("staff", 500, [error |-> "APIError"])
               /\ UNCHANGED <<staffs, assigned_since_reset>>

----------------------------------------------------------------------------
(* reset_priority, lines 160-174 *)

\* the confirmation compared without regard to case
ConfirmedAnyCase(confirmation) == confirmation \in {"CONFIRM", "confirm"}

\* line 165: the confirmation test of reset_priority
Confirmed(confirmation) == confirmation = "CONFIRM"

\* lines 168-172: the update has no filter; the table after it, when the
\* store carries the update out: every row is written
ResetAll(t) ==
    [i \in DOMAIN t |->
        [t[i] EXCEPT !.priority_count = 0, !.priority_updated_month = None]]

\* lines 162-174: one store call, the update with no filter.  The store
\* carries it out or refuses it (a store that wants a filter on every
\* update): a refused call raises APIError, and the request is answered 500.
reset_priority(h, hn, o, confirmation) ==
    /\ Arrives(h, o)
    /\ UNCHANGED monthly_schedule
    /\ IF ~Confirmed(confirmation)
       THEN /\ hn = Answered("reset", 400, [error |-> "Confirmation failed"])
            /\ UNCHANGED <<staffs, assigned_since_reset>>
       ELSE \/ /\ staffs' = ResetAll(staffs)
               /\ assigned_since_reset' =
                     [id \in DOMAIN assigned_since_reset |-> 0]
               /\ hn = Answered("reset", 200,
                                [message |-> "All staff priorities reset"])
            \/ /\ hn = Answered("reset", 500, [error |-> "APIError"])
               /\ UNCHANGED <<staffs, assigned_since_reset>>

----------------------------------------------------------------------------
(* delete_month_schedule, lines 178-194 *)

\* line 184: the confirmation test of delete_month_schedule
ConfirmedDelete(confirmation) == confirmation = "CONFIRM"

\* the delete without its filter on month
DeleteEveryMonth(rows, month_date) == EmptyBag

\* lines 189-192: the rows left by the delete
DeleteMonth(rows, month_date) ==
    LET left == {r \in BagToSet(rows) : r.month # month_date}
    IN  [r \in left |-> rows[r]]

\* lines 180-194: one store call, the delete
delete_month_schedule(h, hn, o, month, confirmation) ==
    /\ Arrives(h, o)
    /\ UNCHANGED <<staffs, assigned_since_reset>>
    /\ IF ~ConfirmedDelete(confirmation)
       THEN /\ hn = Answered("delete", 400, [error |-> "Type CONFIRM"])
            /\ UNCHANGED monthly_schedule
       ELSE IF month = None
            THEN \* None + "-01" raises TypeError: the request is answered 500
                 /\ hn = Answered("delete", 500, [error |-> "TypeError"])
                 /\ UNCHANGED monthly_schedule
            ELSE /\ monthly_schedule' = DeleteMonth(monthly_schedule, MonthDate(month))
                 /\ hn = Answered("delete", 200, [message |-> month \o " deleted"])

----------------------------------------------------------------------------
(* The service.  A request is taken by run when run is free, by twin when  *)
(* run is in service: which handler serves a request makes no difference   *)
(* to the store.                                                           *)

Init ==
    /\ staffs = <<>>
    /\ monthly_schedule = EmptyBag
    /\ run = NoRun
    /\ twin = NoRun
    /\ requests_left = MaxRequests
    /\ assigned_since_reset = <<>>
    /\ serialized = TRUE

\* a request arrives at handler h
Serve(h, hn, o) ==
    \/ \E staff_id \in StaffIdInputs, staff_name \in NameInputs,
          department \in DepartmentInputs, busy_input \in BusyInputs :
            add_or_update_staff(h, hn, o, staff_id, staff_name, department, busy_input)
    \/ \E month_input \in MonthInputs : generate_monthly_schedule(h, hn, o, month_input)
    \/ \E confirmation \in ConfirmationInputs : reset_priority(h, hn, o, confirmation)
    \/ \E month \in MonthInputs, confirmation \in ConfirmationInputs :
            delete_month_schedule(h, hn, o, month, confirmation)

\* handler h gets the answer of its store call and goes on to the next
Step(h, hn) ==
    \/ write_staff(h, hn)
    \/ insert_schedule_row(h, hn)
    \/ update_priority(h, hn)

Next ==
    \/ Serve(run, run', twin) /\ UNCHANGED twin
    \/ InService(run) /\ Serve(twin, twin', run) /\ UNCHANGED run
    \/ Step(run, run') /\ UNCHANGED twin
    \/ Step(twin, twin') /\ UNCHANGED run

Spec == Init /\ [][Next]_vars

----------------------------------------------------------------------------
(* The scheduler on its own: the handler has fetched staff_resp, any list  *)
(* of up to MaxSnapshot eligible rows in ascending priority_count order,   *)
(* and goes on from there, one store call at a time.                       *)

\* q = <<n0, n1, n2, n3>>: how many fetched rows hold priority_count 0, 1, 2, 3
Shapes(most) ==
    {q \in (0..most) \X (0..most) \X (0..most) \X (0..most) :
        q[1] + q[2] + q[3] + q[4] <= most}

SnapshotShapes == Shapes(MaxSnapshot)

CountAt(q, i) ==
    IF i <= q[1] THEN 0
    ELSE IF i <= q[1] + q[2] THEN 1
    ELSE IF i <= q[1] + q[2] + q[3] THEN 2
    ELSE 3

\* the fetched rows of shape q; the staff_ids follow the fetch order or run
\* against it
SnapshotRows(q, reversed) ==
    LET n == q[1] + q[2] + q[3] + q[4]
    IN  [i \in 1..n |->
            [staff_id |-> IF reversed THEN n + 1 - i ELSE i,
             staff_name |-> "Asha",
             department |-> "CSE",
             busy_9_10 |-> FALSE,
             priority_count |-> CountAt(q, i),
             priority_updated_month |->
                 IF CountAt(q, i) = 0 THEN None ELSE "2023-12-01"]]

\* the staffs table the rows were fetched from, in staff_id order
TableOf(rows) == [id \in 1..Len(rows) |-> StaffOf(rows, id)]

CountsOf(t) == [id \in StaffIds(t) |-> StaffOf(t, id).priority_count]

InitRun ==
    \E q \in SnapshotShapes, reversed \in BOOLEAN, month_input \in Months :
        LET rows == SnapshotRows(q, reversed)
        IN  /\ staffs = TableOf(rows)
            /\ monthly_schedule = EmptyBag
            /\ run = RunOn(rows, month_input)
            /\ twin = NoRun
            /\ requests_left = 0
            /\ assigned_since_reset = CountsOf(TableOf(rows))
            /\ serialized = TRUE

NextRun ==
    \/ insert_schedule_row(run, run') /\ UNCHANGED twin
    \/ update_priority(run, run') /\ UNCHANGED twin

SpecRun == InitRun /\ [][NextRun]_vars

----------------------------------------------------------------------------
(* Two runs side by side: both have fetched the same staff_ids with the    *)
(* same priority_count values in the same order; what else a fetched row   *)
(* and the request carry (priority_updated_month, the month) may differ.   *)
(* Their store calls interleave.                                           *)

\* rows with the month stamp of the staff at the positions in restamped
\* replaced
Restamped(rows, restamped) ==
    [i \in DOMAIN rows |->
        IF i \in restamped
        THEN [rows[i] EXCEPT !.priority_updated_month = "2024-01-01"]
        ELSE rows[i]]

InitTwin ==
    \E q \in Shapes(MaxTwin), reversed \in BOOLEAN,
       month_input \in Months, twin_month \in Months :
        LET rows == SnapshotRows(q, reversed)
        IN  \E restamped \in SUBSET {i \in DOMAIN rows : rows[i].priority_count > 0} :
              /\ staffs = TableOf(rows)
              /\ monthly_schedule = EmptyBag
              /\ run = RunOn(rows, month_input)
              /\ twin = RunOn(Restamped(rows, restamped), twin_month)
              /\ requests_left = 0
              /\ assigned_since_reset = CountsOf(TableOf(rows))
              /\ serialized = FALSE

NextTwin ==
    \/ insert_schedule_row(run, run') /\ UNCHANGED twin
    \/ update_priority(run, run') /\ UNCHANGED twin
    \/ insert_schedule_row(twin, twin') /\ UNCHANGED run
    \/ update_priority(twin, twin') /\ UNCHANGED run

SpecTwin == InitTwin /\ [][NextTwin]_vars

----------------------------------------------------------------------------
(* Two POST /schedule requests on a table of up to MaxRace staff, served   *)
(* one after the other or concurrently.                                    *)

InitRace ==
    \E q \in Shapes(MaxRace), reversed \in BOOLEAN :
        LET rows == SnapshotRows(q, reversed)
        IN  /\ staffs = TableOf(rows)
            /\ monthly_schedule = EmptyBag
            /\ run = NoRun
            /\ twin = NoRun
            /\ requests_left = 2
            /\ assigned_since_reset = CountsOf(TableOf(rows))
            /\ serialized = TRUE

NextRace ==
    \/ /\ \E month_input \in Months : generate_monthly_schedule(run, run', twin, month_input)
       /\ UNCHANGED twin
    \/ /\ InService(run)
       /\ \E month_input \in Months : generate_monthly_schedule(twin, twin', run, month_input)
       /\ UNCHANGED run
    \/ insert_schedule_row(run, run') /\ UNCHANGED twin
    \/ update_priority(run, run') /\ UNCHANGED twin
    \/ insert_schedule_row(twin, twin') /\ UNCHANGED run
    \/ update_priority(twin, twin') /\ UNCHANGED run

SpecRace == InitRace /\ [][NextRace]_vars

----------------------------------------------------------------------------
(* Properties of a scheduling run, read off the handler's locals and the   *)
(* two tables                                                              *)

\* the handler has fetched and planned
Planned == run.op = "schedule" /\ "assignments" \in DOMAIN run
\* the handler has fetched and planned, and made no other store call yet
PlanMade == Planned /\ run.inserted = 0 /\ run.updated = 0
\* the handler has made all its store calls and answered
RunDone == Planned /\ run.pc = "done"
Fetched == DOMAIN run.staff_resp
IdAt(i) == run.staff_resp[i].staff_id
InitialCount(i) == run.staff_resp[i].priority_count
FinalCount(i) == run.staff_map[i].priority_count
Received(i) == CountOf(run.assignments, IdAt(i))
RowsOn(day) == Cardinality({k \in DOMAIN run.rows : run.rows[k].weekday = day})
\* the rows of the staffs table with a staff_id
Stored(id) == {staffs[i] : i \in {j \in DOMAIN staffs : staffs[j].staff_id = id}}
\* the rows the handler has inserted so far, as a bag
InsertedRows(r) == BagOfAll(LAMBDA k : r.rows[k], SetToBag(1..r.inserted))

RECURSIVE SumOver(_, _)
SumOver(f, n) == IF n = 0 THEN 0 ELSE f[n] + SumOver(f, n - 1)

Supply == SumOver([i \in Fetched |-> 3 - InitialCount(i)], Len(run.staff_resp))

MaxOf(S) == CHOOSE x \in S : \A y \in S : y <= x
MinOf(S) == CHOOSE x \in S : \A y \in S : x <= y

\* C1: in a scheduling run no staff member receives more than 3
\* assignments, a staff member whose priority_count has reached 3 is not
\* assigned, and whoever was assigned ends the run with priority_count <= 3,
\* in the handler's staff_map and, at every store call of the run, in the
\* staffs table.
C1_CeilingRespected ==
    /\ PlanMade =>
          \A i \in Fetched :
              /\ Received(i) <= 3
              /\ InitialCount(i) >= 3 => Received(i) = 0
              /\ Received(i) > 0 => FinalCount(i) <= 3
    /\ Planned =>
          \A i \in DOMAIN staffs : staffs[i].priority_count <= 3

C1_Witness ==
    /\ RunDone
    /\ \E i \in Fetched : Received(i) = 3
    /\ \E i \in Fetched :
          /\ InitialCount(i) = 2 /\ Received(i) = 1 /\ FinalCount(i) = 3
          /\ \A s \in Stored(IdAt(i)) : s.priority_count = 3
    /\ \E i \in Fetched : InitialCount(i) = 3 /\ Received(i) = 0

\* C2: a run produces at most 36 assignments; exactly 36 when the eligible
\* staff's supply, the sum of (3 - initial priority_count), is at least 36;
\* and fewer than 36 only when every eligible staff member ends with
\* priority_count >= 3 (which covers the run with no eligible staff).
C2_AssignmentCount ==
    PlanMade =>
        /\ Len(run.assignments) <= 36
        /\ Supply >= 36 => Len(run.assignments) = 36
        /\ Len(run.assignments) < 36 => \A i \in Fetched : FinalCount(i) >= 3

C2_Witness ==
    /\ RunDone
    /\ Len(run.assignments) = 36
    /\ BagCardinality(monthly_schedule) = 36
    /\ Supply > 36
    /\ \E i \in Fetched : FinalCount(i) < 3

\* C4: at the end of a run a weekday is in the reported shortage_days
\* exactly when the run filled fewer than 6 of its slots, no weekday is
\* reported more than once, and with no eligible staff all six weekdays are
\* reported and the plan is empty.
C4_ShortageDays ==
    RunDone =>
        /\ monthly_schedule = InsertedRows(run)
        /\ run.inserted = Len(run.rows)
        /\ \A di \in DOMAIN weekdays :
              BagIn(weekdays[di], run.response.body.shortage_days)
                  <=> RowsOn(weekdays[di]) < 6
        /\ \A d \in BagToSet(run.response.body.shortage_days) :
              /\ CopiesIn(d, run.response.body.shortage_days) = 1
              /\ d \in Range(weekdays)
        /\ run.staff_resp = <<>> =>
              /\ BagToSet(run.response.body.shortage_days) = Range(weekdays)
              /\ run.response.body.scheduled_days = <<>>
              /\ run.rows = <<>>

\* a run that filled Monday, left Tuesday short at two gates and at the
\* second seat of a third, and reports Tuesday once
C4_Witness ==
    /\ RunDone
    /\ RowsOn("Monday") = 6
    /\ RowsOn("Tuesday") = 1
    /\ CountOf(run.shortage_days, "Tuesday") = 3
    /\ CopiesIn("Tuesday", run.response.body.shortage_days) = 1
    /\ ~BagIn("Monday", run.response.body.shortage_days)

AssignedStaff == {i \in Fetched : Received(i) > 0}
SpreadBefore == MaxOf({InitialCount(i) : i \in AssignedStaff})
                  - MinOf({InitialCount(i) : i \in AssignedStaff})
SpreadAfter == MaxOf({FinalCount(i) : i \in AssignedStaff})
                 - MinOf({FinalCount(i) : i \in AssignedStaff})

\* C8: over the staff members that received an assignment in the run, the
\* spread (max - min) of the final priority_count, in the handler's
\* staff_map and as persisted at the end of the run, is at most the spread
\* of their pre-run priority_count plus 1.
C8_Fairness ==
    /\ PlanMade /\ AssignedStaff # {} => SpreadAfter <= SpreadBefore + 1
    /\ RunDone =>
          \A i \in Fetched : \A s \in Stored(IdAt(i)) : s.priority_count = FinalCount(i)

\* the bound is met: equal counts before, a spread of 1 after
C8_Witness ==
    /\ RunDone
    /\ Cardinality(AssignedStaff) >= 2
    /\ SpreadBefore = 0
    /\ SpreadAfter = 1

----------------------------------------------------------------------------
(* The example of three eligible staff *)

ThreeAtZero ==
    /\ Len(run.staff_resp) = 3
    /\ \A i \in Fetched : InitialCount(i) = 0

ShortageSet == BagToSet(run.response.body.shortage_days)

\* C12: with exactly 3 eligible staff fetched, all at priority_count 0, the
\* run produces exactly 9 assignments, each of the three ends with
\* priority_count 3, 27 of the 36 slots stay unfilled, Monday gets 6 rows and
\* is not a shortage day, Tuesday gets the other 3, and the shortage days
\* are exactly Tuesday to Saturday.
C12_ThreeStaffExample ==
    /\ PlanMade /\ ThreeAtZero =>
          /\ Len(run.assignments) = 9
          /\ \A i \in Fetched : Received(i) = 3 /\ FinalCount(i) = 3
          /\ TOTAL_SLOTS - Len(run.rows) = 27
    /\ RunDone /\ ThreeAtZero =>
        /\ \A i \in Fetched : \A s \in Stored(IdAt(i)) : s.priority_count = 3
        /\ TOTAL_SLOTS - BagCardinality(monthly_schedule) = 27
        /\ RowsOn("Monday") = 6
        /\ "Monday" \notin ShortageSet
        /\ RowsOn("Tuesday") = 3
        /\ ShortageSet = {"Tuesday", "Wednesday", "Thursday", "Friday", "Saturday"}
        /\ DOMAIN run.response.body.scheduled_days = {"Monday", "Tuesday"}

\* the run of the example is over; the three were picked in turn
C12_Witness ==
    /\ RunDone
    /\ ThreeAtZero
    /\ run.inserted = 9 /\ run.updated = 3
    /\ run.assignments = <<IdAt(1), IdAt(2), IdAt(3), IdAt(1), IdAt(2), IdAt(3),
                           IdAt(1), IdAt(2), IdAt(3)>>

----------------------------------------------------------------------------
(* The steps of the consumption loop, replayed from its result *)

\* the position in the fetch order of the staff member of assignment k
ChosenAt(k) == CHOOSE i \in Fetched : IdAt(i) = run.assignments[k]

\* the priority_count of the staff member at position i when assignment k
\* is about to be made: its fetched count and the increments of the
\* assignments made before
CountBefore(i, k) ==
    InitialCount(i)
      + Cardinality({m \in 1..(k - 1) : run.assignments[m] = IdAt(i)})

\* C14: at every step of the consumption loop the staff member chosen has
\* the minimum current priority_count among the eligible staff of the run,
\* the increments made earlier in the run included, and among those at
\* that minimum it is the first in the fetch order.
C14_MinimumFirstFetched ==
    PlanMade =>
        \A k \in DOMAIN run.assignments :
            /\ \E i \in Fetched : IdAt(i) = run.assignments[k]
            /\ \A i \in Fetched :
                  CountBefore(ChosenAt(k), k) <= CountBefore(i, k)
            /\ \A i \in Fetched :
                  i < ChosenAt(k) =>
                      CountBefore(ChosenAt(k), k) < CountBefore(i, k)

\* a step at which the staff member chosen had been incremented earlier in
\* the run and was tied with one fetched later, whose staff_id is smaller
C14_Witness ==
    /\ RunDone
    /\ \E k \in DOMAIN run.assignments :
          \E j \in Fetched :
              /\ ChosenAt(k) < j
              /\ IdAt(j) < IdAt(ChosenAt(k))
              /\ CountBefore(j, k) = CountBefore(ChosenAt(k), k)
              /\ CountBefore(ChosenAt(k), k) > InitialCount(ChosenAt(k))

----------------------------------------------------------------------------
(* Progressive spreading *)

AllStartEqual == \A i, j \in Fetched : InitialCount(i) = InitialCount(j)

\* the assignments made to the staff member at position i before assignment k
ReceivedBefore(i, k) ==
    Cardinality({m \in 1..(k - 1) : run.assignments[m] = IdAt(i)})

\* C15: at the end of a run, a staff member that received an assignment has
\* a final priority_count of at most the final priority_count of any
\* eligible staff member plus 1; and when all eligible staff start with
\* equal counts, nobody is assigned a second time in the run before every
\* eligible staff member has been assigned once.
C15_ProgressiveSpreading ==
    /\ PlanMade =>
          /\ \A s \in AssignedStaff, t \in Fetched :
                FinalCount(s) <= FinalCount(t) + 1
          /\ AllStartEqual =>
                \A k \in DOMAIN run.assignments :
                    ReceivedBefore(ChosenAt(k), k) >= 1 =>
                        \A t \in Fetched : ReceivedBefore(t, k) >= 1
    /\ RunDone =>
          \A s \in AssignedStaff, t \in Fetched :
              \A ps \in Stored(IdAt(s)), pt \in Stored(IdAt(t)) :
                  ps.priority_count <= pt.priority_count + 1

\* staff that started equal, some assigned a third time when the run stops
\* at 36 and some not: the final counts differ by exactly 1
C15_Witness ==
    /\ RunDone
    /\ AllStartEqual
    /\ Len(run.assignments) = TOTAL_SLOTS
    /\ \E s \in AssignedStaff, t \in Fetched :
          /\ Received(s) = 3
          /\ Received(t) = 2
          /\ FinalCount(s) = FinalCount(t) + 1

----------------------------------------------------------------------------
(* The slot layout *)

\* the row of the k-th assignment, k counted from 0
SlotRow(k) ==
    [staff_id |-> run.assignments[k + 1],
     month |-> run.month_date,
     weekday |-> weekdays[(k \div 6) + 1],
     gate |-> gates[((k % 6) \div 2) + 1]]

\* the rows of monthly_schedule of a weekday, and of a weekday and a gate
StoredOn(day) ==
    BagCardinality([r \in {x \in BagToSet(monthly_schedule) : x.weekday = day}
                      |-> monthly_schedule[r]])
RowsAt(day, g) ==
    BagCardinality([r \in {x \in BagToSet(monthly_schedule) :
                              x.weekday = day /\ x.gate = g}
                      |-> monthly_schedule[r]])

\* C16: the k-th assignment of a run (k = 0, 1, ...) is inserted exactly
\* once, as the row of weekday number k div 6 and gate number
\* (k mod 6) div 2: after each insert of the run the table holds the rows of
\* the first assignments, one each; so the rows inserted are in the end as
\* many as the assignments, they fill a prefix of the layout order, no
\* weekday and gate get more than 2 rows, and no later weekday has a row
\* while an earlier one has a free slot.
C16_SlotMapping ==
    Planned =>
        /\ Len(run.rows) = Len(run.assignments)
        /\ \A k \in 0..(Len(run.assignments) - 1) : run.rows[k + 1] = SlotRow(k)
        /\ monthly_schedule = InsertedRows(run)
        /\ BagCardinality(monthly_schedule) = run.inserted
        /\ RunDone => run.inserted = Len(run.assignments)
        /\ \A di \in DOMAIN weekdays, gi \in DOMAIN gates :
              RowsAt(weekdays[di], gates[gi]) <= 2
        /\ \A di, dj \in DOMAIN weekdays :
              di < dj /\ StoredOn(weekdays[dj]) > 0 => StoredOn(weekdays[di]) = 6

\* a run of 9 assignments: the ninth is the first seat of Tuesday's Gate B
C16_Witness ==
    /\ RunDone
    /\ Len(run.assignments) = 9
    /\ run.rows[9] = [staff_id |-> run.assignments[9],
                      month |-> run.month_date,
                      weekday |-> "Tuesday",
                      gate |-> "Gate B"]
    /\ BagIn(run.rows[9], monthly_schedule)
    /\ RowsAt("Tuesday", "Gate A") = 2
    /\ RowsAt("Tuesday", "Gate B") = 1
    /\ StoredOn("Wednesday") = 0

----------------------------------------------------------------------------
(* Two runs from the same snapshot *)

SnapshotKey(rows) ==
    [i \in DOMAIN rows |-> <<rows[i].staff_id, rows[i].priority_count>>]

BothPlanned ==
    /\ Planned
    /\ twin.op = "schedule" /\ "assignments" \in DOMAIN twin
BothDone == BothPlanned /\ run.pc = "done" /\ twin.pc = "done"

\* C7: two runs that fetched the same staff_ids with the same
\* priority_count values in the same order produce the same ordered
\* assignment list, the same per-day plan, the same shortage days and the
\* same final counters, whatever their months and the month stamps of the
\* fetched rows, and however their store calls interleave.
C7_Determinism ==
    /\ BothPlanned /\ SnapshotKey(run.staff_resp) = SnapshotKey(twin.staff_resp) =>
          /\ run.assignments = twin.assignments
          /\ run.scheduled_days = twin.scheduled_days
          /\ ListOfSet(run.shortage_days) = ListOfSet(twin.shortage_days)
          /\ SnapshotKey(run.staff_map) = SnapshotKey(twin.staff_map)
    /\ BothDone /\ SnapshotKey(run.staff_resp) = SnapshotKey(twin.staff_resp) =>
          /\ run.response.body.scheduled_days = twin.response.body.scheduled_days
          /\ run.response.body.shortage_days = twin.response.body.shortage_days

\* two runs done for different months, whose fetched rows differ in the
\* stamp of one of two staff members tied on priority_count
C7_Witness ==
    /\ BothDone
    /\ run.month_input # twin.month_input
    /\ Len(run.assignments) >= 2
    /\ \E i, j \in DOMAIN run.staff_resp :
          /\ i < j
          /\ run.staff_resp[i].priority_count = run.staff_resp[j].priority_count
          /\ twin.staff_resp[i].priority_updated_month
                # run.staff_resp[i].priority_updated_month
          /\ twin.staff_resp[j].priority_updated_month
                = run.staff_resp[j].priority_updated_month

----------------------------------------------------------------------------
(* Properties of the service.  serialized holds as long as no request has  *)
(* arrived while another was in service; the requests of such a behaviour  *)
(* are all served by run.                                                  *)

\* a request arrives in this step
Arrival == requests_left' = requests_left - 1
\* run gets the answer of a store call of POST /schedule in this step
ScheduleCall == run.op = "schedule" /\ InService(run) /\ run' # run
\* no request is in service
Quiet == ~InService(run) /\ ~InService(twin)
\* the staff_ids of the rows with busy_9_10 = true
BusyIds(t) == {t[i].staff_id : i \in {j \in DOMAIN t : t[j].busy_9_10}}

EntriesOf(scheduled_days) ==
    UNION {{e.staff_id : e \in Range(scheduled_days[d])} : d \in DOMAIN scheduled_days}

\* the staff_ids in the plan of a run
PlanIds(r) ==
    Range(r.assignments)
      \cup {r.rows[k].staff_id : k \in DOMAIN r.rows}
      \cup EntriesOf(r.scheduled_days)

\* the staff_ids a run fetched
FetchedIds(r) == {r.staff_resp[i].staff_id : i \in DOMAIN r.staff_resp}
\* the handler has fetched and planned
HasPlan(r) == r.op = "schedule" /\ "assignments" \in DOMAIN r
\* every staff_id has one row in the table
UniqueIds(t) == \A i, j \in DOMAIN t : t[i].staff_id = t[j].staff_id => i = j
\* a request arrives in this step and is taken by run, by twin
RunTakes == Arrival /\ ~InService(run)
TwinTakes == Arrival /\ InService(run)

\* the example of C3 on table t and the plan of r: with one busy and one
\* non-busy staff member at count 0, exactly 3 assignments, all of the
\* non-busy one, and every weekday short
BusyExample(t, r) ==
    \A b, f \in DOMAIN t :
        (/\ Len(t) = 2
         /\ t[b].busy_9_10
         /\ ~t[f].busy_9_10
         /\ t[f].priority_count = 0)
        =>
            /\ r.assignments = <<t[f].staff_id, t[f].staff_id, t[f].staff_id>>
            /\ Len(r.rows) = 3
            /\ EntriesOf(r.scheduled_days) = {t[f].staff_id}
            /\ DOMAIN r.scheduled_days = {"Monday"}
            /\ BagToSet(ListOfSet(r.shortage_days)) = Range(weekdays)

\* C3, as the claim states it, of the store at the moment of each store
\* call and in every behaviour (on tables where every staff_id has one
\* row): a staff member with busy_9_10 = true never receives an
\* assignment.  The staff_ids of a run's plan are of staff with
\* busy_9_10 = false, every row a run inserts is of a staff member whose
\* busy_9_10 is false when the row is inserted, and no store call of a run
\* changes the record of a staff member with busy_9_10 = true; the example
\* of one busy and one non-busy staff member included.
C3_BusyNeverAssigned ==
    [][/\ UniqueIds(staffs) /\ RunTakes /\ HasPlan(run') =>
            /\ PlanIds(run') \subseteq StaffIds(staffs) \ BusyIds(staffs)
            /\ BusyExample(staffs, run')
       /\ UniqueIds(staffs) /\ ScheduleCall =>
            /\ run'.inserted > run.inserted =>
                  run.rows[run'.inserted].staff_id \notin BusyIds(staffs)
            /\ Len(staffs') = Len(staffs)
            /\ \A i \in DOMAIN staffs : staffs[i].busy_9_10 => staffs'[i] = staffs[i]
    ]_vars

\* what a handler fetched and planned: rows with busy_9_10 = false, and a
\* plan over their staff_ids
PlanOfFetched(r) ==
    HasPlan(r) =>
        /\ \A i \in DOMAIN r.staff_resp : r.staff_resp[i].busy_9_10 = FALSE
        /\ PlanIds(r) \subseteq FetchedIds(r)

\* the fetch of the request that arrives at a handler and becomes rn: the
\* rows of staffs with busy_9_10 = false, all of them and no other
FetchOfNonBusy(rn) ==
    HasPlan(rn) =>
        /\ Range(rn.staff_resp) = {staffs[i] : i \in EligibleRows(staffs)}
        /\ PlanIds(rn) \subseteq StaffIds(staffs)
        /\ UniqueIds(staffs) => PlanIds(rn) \cap BusyIds(staffs) = {}
        /\ BusyExample(staffs, rn)

\* a store call of the run of a handler, r before it and rn after it: the
\* row inserted is of a fetched staff member, and the record of a staff
\* member the run did not fetch is left as it was
WritesOfFetched(r, rn) ==
    r.op = "schedule" /\ InService(r) /\ rn # r =>
        /\ Len(staffs') = Len(staffs)
        /\ \A i \in DOMAIN staffs :
              staffs[i].staff_id \notin FetchedIds(r) => staffs'[i] = staffs[i]
        /\ rn.inserted > r.inserted =>
              /\ r.rows[rn.inserted].staff_id \in FetchedIds(r)
              /\ monthly_schedule'
                    = monthly_schedule (+) SetToBag({r.rows[rn.inserted]})

\* C3, amended: a staff member whose busy_9_10 is true when a run fetches
\* the staff receives no assignment from that run.  In every behaviour,
\* the rows a run fetches are exactly the rows of staffs with
\* busy_9_10 = false at the fetch, its plan and the rows it inserts are of
\* the staff_ids fetched (none of them busy at the fetch, where every
\* staff_id has one row), and its updates leave every record with a
\* staff_id it did not fetch as it was; with one busy and one non-busy
\* staff member at count 0 at the fetch, the plan holds exactly 3
\* assignments, all of the non-busy one, and every weekday is short.  For
\* a run that has the store to itself the same holds of the store
\* throughout the run: the staff of its plan and rows have
\* busy_9_10 = false in the table, and no store call changes the record of
\* a busy staff member.
C3_BusyNeverAssignedAsFetched ==
    /\ [](PlanOfFetched(run) /\ PlanOfFetched(twin))
    /\ [][/\ RunTakes => FetchOfNonBusy(run')
          /\ TwinTakes => FetchOfNonBusy(twin')
          /\ WritesOfFetched(run, run')
          /\ WritesOfFetched(twin, twin')
       ]_vars
    /\ [](serialized /\ Planned =>
            /\ PlanIds(run) \subseteq StaffIds(staffs) \ BusyIds(staffs)
            /\ \A r \in BagToSet(InsertedRows(run)) :
                  /\ BagIn(r, monthly_schedule)
                  /\ r.staff_id \notin BusyIds(staffs)
            /\ RunDone => run.response = ScheduleResponse(run))
    /\ [][serialized' /\ ScheduleCall =>
            /\ Len(staffs') = Len(staffs)
            /\ \A i \in DOMAIN staffs : staffs[i].busy_9_10 => staffs'[i] = staffs[i]
       ]_vars

\* a run has answered; of the two staff members, both busy by now, one was
\* busy at the fetch and got nothing, the other was made busy while the
\* run was in service and got its 3 rows and its count
C3_Witness ==
    /\ ~serialized
    /\ RunDone
    /\ Len(staffs) = 2
    /\ \E b, f \in DOMAIN staffs :
          /\ staffs[b].busy_9_10 /\ staffs[b].priority_count = 0
          /\ staffs[b].staff_id \notin FetchedIds(run)
          /\ staffs[f].busy_9_10 /\ staffs[f].priority_count = 3
          /\ FetchedIds(run) = {staffs[f].staff_id}
          /\ run.assignments = <<staffs[f].staff_id, staffs[f].staff_id, staffs[f].staff_id>>
    /\ BagCardinality(monthly_schedule) = 3
    /\ BagToSet(run.response.body.shortage_days) = Range(weekdays)

AllCountsMatchHistory ==
    \A i \in DOMAIN staffs :
        staffs[i].priority_count = assigned_since_reset[staffs[i].staff_id]

\* C5: a run that has the store to itself fetches the persisted counts and
\* leaves each eligible staff member's persisted priority_count at its
\* pre-run value plus the number of schedule rows the run inserted for that
\* staff member; so between serialized requests a staff member's
\* priority_count is the number of rows inserted for it since the last
\* reset.
C5_CountsMatchRows ==
    /\ serialized /\ Quiet => AllCountsMatchHistory
    /\ serialized /\ Planned /\ run.updated = 0 =>
          \A i \in Fetched : Stored(IdAt(i)) = {run.staff_resp[i]}
    /\ serialized /\ RunDone =>
          /\ run.inserted = Len(run.assignments)
          /\ \A i \in Fetched :
                /\ \A s \in Stored(IdAt(i)) :
                      s.priority_count = InitialCount(i) + Received(i)
                /\ Received(i)
                      = Cardinality({k \in 1..run.inserted : run.rows[k].staff_id = IdAt(i)})

\* a second run since the reset: one staff member was filled by the first
\* run, the other by this one
C5_Witness ==
    /\ serialized
    /\ RunDone
    /\ \E i, j \in Fetched :
          /\ InitialCount(i) = 3 /\ Received(i) = 0
          /\ InitialCount(j) = 0 /\ Received(j) = 3
          /\ \A s \in Stored(IdAt(i)) \cup Stored(IdAt(j)) : s.priority_count = 3
          /\ assigned_since_reset[IdAt(i)] = 3
          /\ assigned_since_reset[IdAt(j)] = 3

\* the store carried out the update of a confirmed reset in this step
ResetStep ==
    \/ Arrival /\ run' # run /\ run'.op = "reset" /\ run'.response.status = 200
    \/ Arrival /\ twin' # twin /\ twin'.op = "reset" /\ twin'.response.status = 200

CountsById(t, id) == {s.priority_count : s \in {t[i] : i \in {j \in DOMAIN t : t[j].staff_id = id}}}

\* C6: over serialized requests a staff member's persisted priority_count
\* never decreases, and no staff row disappears; the one step that lowers a
\* count is the confirmed reset, which sets it to 0.
C6_CountNeverDecreases ==
    [][serialized' =>
          \A id \in StaffIds(staffs) :
              /\ id \in StaffIds(staffs')
              /\ \A before \in CountsById(staffs, id), after \in CountsById(staffs', id) :
                    after < before => ResetStep /\ after = 0
    ]_vars

\* the only staff member was updated (to busy) after a run had filled it
C6_Witness ==
    /\ serialized
    /\ run.response.op = "staff" /\ run.response.status = 200
    /\ Len(staffs) = 1
    /\ staffs[1].busy_9_10
    /\ staffs[1].priority_count = 3

\* C10: reset-priority and delete-month called with a confirmation other
\* than "CONFIRM" (or none) answer with an error and change neither a
\* staff row nor a schedule row, whatever else is in service.
C10_UnconfirmedRejected ==
    [][\A confirmation \in ConfirmationInputs \ {"CONFIRM"} :
          /\ reset_priority(run, run', twin, confirmation) =>
                /\ run'.response.status = 400
                /\ "error" \in DOMAIN run'.response.body
                /\ UNCHANGED <<staffs, monthly_schedule>>
          /\ reset_priority(twin, twin', run, confirmation) =>
                /\ twin'.response.status = 400
                /\ "error" \in DOMAIN twin'.response.body
                /\ UNCHANGED <<staffs, monthly_schedule>>
          /\ \A month \in MonthInputs :
                /\ delete_month_schedule(run, run', twin, month, confirmation) =>
                      /\ run'.response.status = 400
                      /\ "error" \in DOMAIN run'.response.body
                      /\ UNCHANGED <<staffs, monthly_schedule>>
                /\ delete_month_schedule(twin, twin', run, month, confirmation) =>
                      /\ twin'.response.status = 400
                      /\ "error" \in DOMAIN twin'.response.body
                      /\ UNCHANGED <<staffs, monthly_schedule>>
    ]_vars

\* a rejected request with counts and rows in place
C10_Witness ==
    /\ run.response.op \in {"reset", "delete"}
    /\ run.response.status = 400
    /\ monthly_schedule # EmptyBag
    /\ \E i \in DOMAIN staffs : staffs[i].priority_count = 3

\* C9: after reset-priority is called with "CONFIRM", every staff member,
\* busy or not, has priority_count 0 and no priority_updated_month, and
\* the scheduling run that follows fetches priority_count 0 for every
\* eligible staff member.
C9_ResetZeroesAll ==
    [][/\ (\/ reset_priority(run, run', twin, "CONFIRM")
           \/ reset_priority(twin, twin', run, "CONFIRM")) =>
              /\ Len(staffs') = Len(staffs)
              /\ \A i \in DOMAIN staffs' :
                    /\ staffs'[i].priority_count = 0
                    /\ staffs'[i].priority_updated_month = None
       /\ (/\ serialized'
           /\ run.op = "reset" /\ run.response.status # 400
           /\ Arrival /\ run'.op = "schedule" /\ "staff_resp" \in DOMAIN run') =>
              /\ {run'.staff_resp[i].staff_id : i \in DOMAIN run'.staff_resp}
                    = StaffIds(staffs) \ BusyIds(staffs)
              /\ \A i \in DOMAIN run'.staff_resp :
                    run'.staff_resp[i].priority_count = 0
    ]_vars

\* the request lacks the input
Lacking(x) == x = None \/ x = ""

\* the MissingParameter answer: an error reported to the caller as a fault
\* of the request
MissingParameterError(resp) == resp.status = 400 /\ "error" \in DOMAIN resp.body

\* C11: a request that lacks a required input (month for schedule and for
\* delete-month; staff_id, staff_name or department for add-or-update
\* staff) is answered with a missing-parameter error and changes neither
\* table.
C11_MissingParameterRejected ==
    [][/\ \A month_input \in MonthInputs :
             Lacking(month_input) /\ generate_monthly_schedule(run, run', twin, month_input) =>
                 /\ MissingParameterError(run'.response)
                 /\ UNCHANGED <<staffs, monthly_schedule>>
       /\ \A staff_id \in StaffIdInputs, staff_name \in NameInputs,
             department \in DepartmentInputs, busy_input \in BusyInputs :
             (/\ staff_id = 0 \/ Lacking(staff_name) \/ Lacking(department)
              /\ add_or_update_staff(run, run', twin, staff_id, staff_name,
                                     department, busy_input)) =>
                 /\ MissingParameterError(run'.response)
                 /\ UNCHANGED <<staffs, monthly_schedule>>
       /\ \A month \in MonthInputs, confirmation \in ConfirmationInputs :
             Lacking(month) /\ delete_month_schedule(run, run', twin, month, confirmation) =>
                 /\ MissingParameterError(run'.response)
                 /\ UNCHANGED <<staffs, monthly_schedule>>
    ]_vars

----------------------------------------------------------------------------
(* What a scheduling run leaves alone *)

\* the rows of a table that a step took out or changed
RowsLost == {r \in BagToSet(monthly_schedule) :
                CopiesIn(r, monthly_schedule') < CopiesIn(r, monthly_schedule)}

\* C17, as the claim states it, in every behaviour (on tables where every
\* staff_id has one row): no store call of a scheduling run creates or
\* deletes a staff record or changes a staff field other than
\* priority_count and priority_updated_month, none writes to the record of
\* a staff member with busy_9_10 = true, and none deletes or alters a
\* schedule row that was there.
C17_RunFrame ==
    [][/\ UniqueIds(staffs) /\ ScheduleCall =>
            /\ Len(staffs') = Len(staffs)
            /\ \A i \in DOMAIN staffs :
                  /\ staffs'[i].staff_id = staffs[i].staff_id
                  /\ staffs'[i].staff_name = staffs[i].staff_name
                  /\ staffs'[i].department = staffs[i].department
                  /\ staffs'[i].busy_9_10 = staffs[i].busy_9_10
                  /\ staffs[i].busy_9_10 => staffs'[i] = staffs[i]
            /\ RowsLost = {}
            /\ BagCardinality(monthly_schedule')
                  = BagCardinality(monthly_schedule) + (run'.inserted - run.inserted)
       /\ RunTakes /\ run'.op = "schedule" =>
            UNCHANGED <<staffs, monthly_schedule>>
    ]_vars

\* what a store call of the run of a handler leaves alone, r before it and
\* rn after it
FrameOfCall(r, rn) ==
    r.op = "schedule" /\ InService(r) /\ rn # r =>
        /\ Len(staffs') = Len(staffs)
        /\ \A i \in DOMAIN staffs :
              /\ staffs'[i].staff_id = staffs[i].staff_id
              /\ staffs'[i].staff_name = staffs[i].staff_name
              /\ staffs'[i].department = staffs[i].department
              /\ staffs'[i].busy_9_10 = staffs[i].busy_9_10
              /\ staffs[i].staff_id \notin FetchedIds(r) => staffs'[i] = staffs[i]
        /\ RowsLost = {}
        /\ BagCardinality(monthly_schedule')
              = BagCardinality(monthly_schedule) + (rn.inserted - r.inserted)

\* C17, amended: no store call of a scheduling run creates or deletes a
\* staff record or changes a staff field other than priority_count and
\* priority_updated_month, none writes to a record with a staff_id the run
\* did not fetch (the run fetches the rows with busy_9_10 = false), and
\* none deletes or alters a schedule row that was there:
\* an insert adds its one row to the table, so the rows of an earlier run,
\* of the same month too, are kept.  This holds in every behaviour.  A run
\* that has the store to itself writes to no record that has
\* busy_9_10 = true in the table.
C17_RunFrameAsFetched ==
    [][/\ FrameOfCall(run, run')
       /\ FrameOfCall(twin, twin')
       /\ PlanOfFetched(run) /\ PlanOfFetched(twin)
       /\ serialized' /\ ScheduleCall =>
            \A i \in DOMAIN staffs : staffs[i].busy_9_10 => staffs'[i] = staffs[i]
       /\ Arrival /\ run' # run /\ run'.op = "schedule" =>
            UNCHANGED <<staffs, monthly_schedule>>
       /\ TwinTakes /\ twin'.op = "schedule" =>
            UNCHANGED <<staffs, monthly_schedule>>
    ]_vars

\* a second run for the month of an earlier one: the rows of both are in
\* the table
C17_Witness ==
    /\ serialized
    /\ RunDone
    /\ BagCardinality(monthly_schedule) = 6
    /\ Len(run.rows) = 3
    /\ \A r \in BagToSet(monthly_schedule) : r.month = run.month_date
    /\ \E r \in BagToSet(monthly_schedule) : r.staff_id \notin PlanIds(run)

----------------------------------------------------------------------------
(* Exhaustion across runs *)

\* every non-busy staff member is at the ceiling (also when there is none)
AllExhausted ==
    \A i \in EligibleRows(staffs) : staffs[i].priority_count >= Ceiling

\* C18: once every non-busy staff member has priority_count >= 3, a
\* serialized scheduling run produces an empty plan, inserts no row,
\* reports all six weekdays as shortage and changes no priority_count; this
\* lasts until a confirmed reset-priority or an add-or-update of staff.  So
\* between two resets no staff member receives more than 3 assignments over
\* any number of serialized runs.
C18_ExhaustionPersists ==
    /\ [](serialized /\ PlanMade /\ AllExhausted =>
            /\ run.assignments = <<>>
            /\ run.rows = <<>>
            /\ run.scheduled_days = <<>>
            /\ BagToSet(ListOfSet(run.shortage_days)) = Range(weekdays))
    /\ [](RunDone => run.response = ScheduleResponse(run))
    /\ [][serialized' /\ AllExhausted /\ ScheduleCall =>
            /\ monthly_schedule' = monthly_schedule
            /\ Len(staffs') = Len(staffs)
            /\ \A i \in DOMAIN staffs :
                  staffs'[i].priority_count = staffs[i].priority_count
       ]_vars
    /\ [][serialized' /\ AllExhausted /\ ~AllExhausted' =>
            \/ ResetStep
            \/ /\ run.op = "staff" /\ run.pc = "selected"
               /\ run'.response.status \in {200, 201}
       ]_vars
    /\ [](serialized =>
            \A id \in DOMAIN assigned_since_reset : assigned_since_reset[id] <= 3)

\* a run made when the staff member an earlier run had filled was the only
\* one eligible
C18_Witness ==
    /\ serialized
    /\ RunDone
    /\ run.staff_resp # <<>>
    /\ \A i \in Fetched : InitialCount(i) = 3
    /\ run.assignments = <<>>
    /\ run.updated = Len(run.staff_map)
    /\ BagCardinality(monthly_schedule) = 3
    /\ BagToSet(run.response.body.shortage_days) = Range(weekdays)
    /\ \A i \in DOMAIN staffs : staffs[i].priority_count = 3

----------------------------------------------------------------------------
(* What delete-month leaves alone *)

RowsOfMonth(rows, month_date) ==
    BagCardinality([r \in {x \in BagToSet(rows) : x.month = month_date} |-> rows[r]])

\* C19: delete-month with confirmation "CONFIRM" and month M removes
\* exactly the schedule rows whose month is M-01, leaves the rows of every
\* other month as they were, and leaves every staff record, its
\* priority_count and priority_updated_month included, unchanged.
C19_DeleteMonthFrame ==
    [][/\ \A month \in Months :
          (\/ /\ delete_month_schedule(run, run', twin, month, "CONFIRM")
              /\ run'.response.status = 200
           \/ /\ delete_month_schedule(twin, twin', run, month, "CONFIRM")
              /\ twin'.response.status = 200) =>
              /\ RowsOfMonth(monthly_schedule', month \o "-01") = 0
              /\ BagCardinality(monthly_schedule') =
                    BagCardinality(monthly_schedule)
                      - RowsOfMonth(monthly_schedule, month \o "-01")
              /\ \A r \in BagToSet(monthly_schedule) :
                    r.month # month \o "-01" =>
                        CopiesIn(r, monthly_schedule') = CopiesIn(r, monthly_schedule)
              /\ BagToSet(monthly_schedule') \subseteq BagToSet(monthly_schedule)
              /\ staffs' = staffs
       /\ \A asked \in Months :
             delete_month_schedule(run, run', twin, asked, "CONFIRM") =>
                 run'.response.status = 200
    ]_vars

\* one month's rows were deleted and another month's are left; the staff
\* member of the deleted rows keeps the count and the stamp of its run
C19_Witness ==
    /\ run.response.op = "delete" /\ run.response.status = 200
    /\ BagCardinality(monthly_schedule) = 3
    /\ \A r \in BagToSet(monthly_schedule) : r.month = "2024-02-01"
    /\ \E i \in DOMAIN staffs :
          /\ staffs[i].priority_count = 3
          /\ staffs[i].priority_updated_month = "2024-01-01"

----------------------------------------------------------------------------
(* Two concurrent runs *)

\* the (staff_id, priority_count) pairs a run fetched
FetchedCounts(r) ==
    {<<r.staff_resp[i].staff_id, r.staff_resp[i].priority_count>> : i \in DOMAIN r.staff_resp}

\* both runs fetched the same counts
SameCountsFetched == FetchedCounts(run) = FetchedCounts(twin)

\* a persisted priority_count is smaller than the pre-run value plus the
\* rows inserted for the staff member
LostUpdate ==
    \E i \in DOMAIN staffs :
        staffs[i].priority_count < assigned_since_reset[staffs[i].staff_id]

\* C13: concurrent scheduling runs are not safe.  When both runs fetch the
\* staff before either writes a count back and they assign anything, the
\* counter writes of one overwrite the other's: once both have answered,
\* some staff member's persisted priority_count is smaller than its
\* pre-run value plus the number of rows the two runs inserted for it.
\* When the runs are serialized, no such state is reached between them or
\* after them.
C13_LostUpdateOnlyWhenInterleaved ==
    /\ serialized /\ Quiet => ~LostUpdate
    /\ BothDone /\ SameCountsFetched /\ run.assignments # <<>> => LostUpdate

\* both runs fetched the counts at 0 and inserted 3 rows for each staff
\* member, and the counts stand at 3
C13_Witness ==
    /\ BothDone
    /\ ~serialized
    /\ staffs # <<>>
    /\ \A i \in DOMAIN staffs :
          /\ staffs[i].priority_count = 3
          /\ assigned_since_reset[staffs[i].staff_id] = 6
    /\ LostUpdate

====
